---------------------------- MODULE Spec2Model ----------------------------
(***************************************************************************)
(* Model of developerbox_spi.c: the bit-bang SPI programmer driver for    *)
(* the CP2102N GPIO latch of the 96Boards Developerbox.                    *)
(*                                                                         *)
(*   Spec        developerbox_spi_init, get_device_by_vid_pid_serial and   *)
(*               developerbox_spi_shutdown, one action per library call    *)
(*   SpecSerial  the same program run against a single attached device     *)
(*               with a wider range of serial strings and filters          *)
(*   SpecLatch   cp210x_gpio_set / cp210x_gpio_get applied to arbitrary    *)
(*               arguments                                                 *)
(*   SpecPins    the five bitbang_spi_master callbacks driven by the       *)
(*               bit-bang framework after a successful init                *)
(*   SpecRun     one whole run: init, the callbacks while registered,      *)
(*               then the shutdown hook                                    *)
(***************************************************************************)
EXTENDS Integers, Sequences, FiniteSets, TLC

(***************************************************************************)
(* Bounds of the model.                                                    *)
(***************************************************************************)
\* longest list libusb_get_device_list returns in Spec
MaxDevs == 2
\* longest serial string / serial filter in SpecSerial
MaxSerialLen == 2
\* largest character code of serial strings in SpecSerial (1 .. MaxChar)
MaxChar == 2
\* largest argument handed to cp210x_gpio_set / largest level handed to a
\* pin callback (the framework passes 0 or 1; larger ints are legal C)
MaxGpioArg == 16
MaxLevel == 2

(***************************************************************************)
(* Program constants.                                                      *)
(***************************************************************************)
DEVELOPERBOX_SPI_SCK == 0
DEVELOPERBOX_SPI_CS == 1
DEVELOPERBOX_SPI_MISO == 2
DEVELOPERBOX_SPI_MOSI == 3

\* 0x40, 0xc0
REQTYPE_HOST_TO_DEVICE == 64
REQTYPE_DEVICE_TO_HOST == 192
\* 0xFF
CP210X_VENDOR_SPECIFIC == 255
\* 0x37E1, 0x00C2
CP210X_WRITE_LATCH == 14305
CP210X_READ_LATCH == 194

\* devs_developerbox[0]: {0x10C4, 0xEA60, ...}
devs_developerbox == [vendor_id |-> 4292, device_id |-> 60000]

\* unsigned char myserial[64]
SerialBufLen == 64

(***************************************************************************)
(* C values.                                                               *)
(***************************************************************************)
\* a char * that is NULL: no C string holds the character 0
NULL == <<0>>
\* a libusb_device_handle * that is NULL; handle k is the open handle of list[k]
NoHandle == 0

\* C strings are the sequences of their non-zero characters; the character
\* read at or after the end is the terminating 0
CharAt(s, k) == IF k <= Len(s) THEN s[k] ELSE 0

\* strncmp(s1, s2, n), reduced to its sign: characters are compared from the
\* front, at most n of them, stopping at the first difference or at the
\* terminating 0
RECURSIVE StrncmpFrom(_, _, _, _)
StrncmpFrom(s1, s2, n, k) ==
    IF k > n THEN 0
    ELSE IF CharAt(s1, k) # CharAt(s2, k)
         THEN (IF CharAt(s1, k) < CharAt(s2, k) THEN -1 ELSE 1)
         ELSE IF CharAt(s1, k) = 0 THEN 0
              ELSE StrncmpFrom(s1, s2, n, k + 1)

\* a comparison that takes its length from the second string
StrncmpLenOfSecond(s1, s2, n) == StrncmpFrom(s1, s2, Len(s2), 1)

strncmp(s1, s2, n) == StrncmpFrom(s1, s2, n, 1)

\* libusb_get_string_descriptor_ascii(handle, idx, data, length) leaves at
\* most length - 1 characters and the terminating 0 in data
AsciiDescriptor(s, length) ==
    IF Len(s) <= length - 1 THEN s ELSE SubSeq(s, 1, length - 1)

(***************************************************************************)
(* The attached USB devices, as libusb presents them.                      *)
(***************************************************************************)
VendorIds == {devs_developerbox.vendor_id, 1027}
ProductIds == {devs_developerbox.device_id, 24577}

RECURSIVE StringsUpTo(_, _)
StringsUpTo(chars, n) ==
    IF n = 0 THEN {<<>>}
    ELSE LET shorter == StringsUpTo(chars, n - 1)
         IN  shorter \cup {Append(s, c) : s \in shorter, c \in chars}

\* descOk: libusb_get_device_descriptor succeeds; openOk: libusb_open
\* succeeds; serialOk: the string descriptor iSerialNumber can be read.
\* Fields the selector cannot reach after an earlier failure are fixed.
Devices(serials) ==
    { d \in [descOk : BOOLEAN, idVendor : VendorIds, idProduct : ProductIds,
             openOk : BOOLEAN, serialOk : BOOLEAN, serial : serials \cup {<<>>}] :
        /\ ~d.descOk => /\ d.idVendor # devs_developerbox.vendor_id
                        /\ d.idProduct # devs_developerbox.device_id
        /\ (d.idVendor # devs_developerbox.vendor_id
              /\ d.idProduct # devs_developerbox.device_id) => ~d.openOk
        /\ ~d.openOk => ~d.serialOk
        /\ ~d.serialOk => d.serial = <<>> }

RECURSIVE ListsUpTo(_, _)
ListsUpTo(S, n) ==
    IF n = 0 THEN {<<>>}
    ELSE LET shorter == ListsUpTo(S, n - 1)
         IN  shorter \cup {Append(l, d) : l \in shorter, d \in S}

\* the serial strings and "serial=" parameters of Spec
SelSerials == {<<1, 2, 1>>, <<1, 2, 2>>, <<2>>}
SelFilters == {NULL, <<>>, <<1, 2, 1>>, <<1, 2>>}

VARIABLES
    pc,             \* position of the program
    devs,           \* the devices attached, in enumeration order
    serialno,       \* extract_programmer_param("serial"), or NULL
    usb_ctx,        \* TRUE while the libusb context exists
    ctxInits,       \* libusb_init calls that created a context
    ctxExits,       \* libusb_exit calls
    listGets,       \* device lists acquired
    listFrees,      \* libusb_free_device_list calls
    i,              \* loop index of the selector (list[i - 1] in C)
    handle,         \* the selector's local handle
    myserial,       \* the selector's serial buffer
    cp210x_handle,  \* the driver's device handle
    openHandles,    \* the handles open at libusb
    openLog,        \* the devices libusb_open was called on, in order
    closeLog,       \* the handles libusb_close was called on, in order
    hooks,          \* shutdown callbacks registered
    masters,        \* bit-bang masters registered
    initRet,        \* what developerbox_spi_init returned, -1 before it did
    refused         \* the library and framework calls that failed so far

lifeVars == <<refused, pc, devs, serialno, usb_ctx, ctxInits, ctxExits, listGets,
              listFrees, i, handle, myserial, cp210x_handle, openHandles,
              openLog, closeLog, hooks, masters, initRet>>

VARIABLES
    latch,          \* the GPIO latch of the CP2102N (4 pins)
    lastOp,         \* the driver function last called, with its arguments
    gpioArgs,       \* the (val, mask) that call handed to cp210x_gpio_set
    xfers,          \* the control transfers that call issued, in order
    xferRes,        \* how each of them ended, and the byte a read delivered
    lastRet         \* what the call returned (0 for a void function)

pinVars == <<latch, lastOp, gpioArgs, xfers, xferRes, lastRet>>

vars == <<lifeVars, pinVars>>

(***************************************************************************)
(* get_device_by_vid_pid_serial                                            *)
(***************************************************************************)
count == Len(devs)

\* the test of line 157 that makes the loop skip a candidate
IdSkip(desc, vid, pid) == (desc.idVendor # vid) /\ (desc.idProduct # pid)

\* the libusb_close that was forgotten
CloseForgotten(h) == UNCHANGED <<openHandles, closeLog>>

\* libusb_close(h)
Close(h) ==
    /\ openHandles' = openHandles \ {h}
    /\ closeLog' = Append(closeLog, h)

\* "break" in the place of "continue": the loop gives up
ContinueEndsLoop ==
    /\ i' = count + 1
    /\ pc' = "loop"
    /\ UNCHANGED listFrees

\* "continue" that releases the device list on its way
ContinueFreeingList ==
    /\ i' = i + 1
    /\ pc' = "loop"
    /\ listFrees' = listFrees + 1

\* "continue": on to the next candidate
Continue ==
    /\ i' = i + 1
    /\ pc' = "loop"
    /\ UNCHANGED listFrees

\* lines 139-143: libusb_get_device_list
GetDeviceList ==
    /\ pc = "get_list"
    /\ \E ok \in BOOLEAN :
         IF ok
         THEN /\ listGets' = listGets + 1
              /\ UNCHANGED refused
              /\ i' = 1
              /\ pc' = "loop"
              /\ UNCHANGED cp210x_handle
         ELSE /\ cp210x_handle' = NoHandle
              /\ refused' = refused \cup {"libusb_get_device_list"}
              /\ pc' = "sel_ret"
              /\ UNCHANGED <<listGets, i>>
    /\ UNCHANGED <<devs, serialno, usb_ctx, ctxInits, ctxExits, listFrees,
                   handle, myserial, openHandles, openLog, closeLog, hooks,
                   masters, initRet>>
    /\ UNCHANGED pinVars

\* lines 146-158: the loop test, libusb_get_device_descriptor, the ID test
ReadDescriptor ==
    /\ pc = "loop"
    /\ i <= count
    /\ IF ~devs[i].descOk
       THEN Continue
       ELSE IF IdSkip(devs[i], devs_developerbox.vendor_id,
                      devs_developerbox.device_id)
            THEN Continue
            ELSE /\ pc' = "open"
                 /\ UNCHANGED <<i, listFrees>>
    /\ UNCHANGED <<refused, devs, serialno, usb_ctx, ctxInits, ctxExits, listGets,
                   handle, myserial, cp210x_handle, openHandles, openLog,
                   closeLog, hooks, masters, initRet>>
    /\ UNCHANGED pinVars

\* lines 164-170: libusb_open
OpenDevice ==
    /\ pc = "open"
    /\ openLog' = Append(openLog, i)
    /\ IF ~devs[i].openOk
       THEN /\ Continue
            /\ UNCHANGED <<handle, openHandles>>
       ELSE /\ handle' = i
            /\ openHandles' = openHandles \cup {i}
            /\ pc' = IF serialno # NULL THEN "serial" ELSE "found"
            /\ UNCHANGED <<i, listFrees>>
    /\ UNCHANGED <<refused, devs, serialno, usb_ctx, ctxInits, ctxExits, listGets,
                   myserial, cp210x_handle, closeLog, hooks, masters, initRet>>
    /\ UNCHANGED pinVars

\* lines 171-178: libusb_get_string_descriptor_ascii
ReadSerial ==
    /\ pc = "serial"
    /\ IF ~devs[handle].serialOk
       THEN /\ Close(handle)
            /\ Continue
            /\ UNCHANGED myserial
       ELSE /\ myserial' = AsciiDescriptor(devs[handle].serial, SerialBufLen)
            /\ pc' = "cmp"
            /\ UNCHANGED <<i, listFrees, openHandles, closeLog>>
    /\ UNCHANGED <<refused, devs, serialno, usb_ctx, ctxInits, ctxExits, listGets,
                   handle, cp210x_handle, openLog, hooks, masters, initRet>>
    /\ UNCHANGED pinVars

\* lines 180-183: the prefix test
CompareSerial ==
    /\ pc = "cmp"
    /\ IF 0 # strncmp(serialno, myserial, Len(serialno))
       THEN /\ Close(handle)
            /\ Continue
       ELSE /\ pc' = "found"
            /\ UNCHANGED <<i, listFrees, openHandles, closeLog>>
    /\ UNCHANGED <<refused, devs, serialno, usb_ctx, ctxInits, ctxExits, listGets,
                   handle, myserial, cp210x_handle, openLog, hooks, masters,
                   initRet>>
    /\ UNCHANGED pinVars

\* lines 186-187: the list is released and the handle returned
ReturnHandle ==
    /\ pc = "found"
    /\ listFrees' = listFrees + 1
    /\ cp210x_handle' = handle
    /\ pc' = "sel_ret"
    /\ UNCHANGED <<refused, devs, serialno, usb_ctx, ctxInits, ctxExits, listGets, i,
                   handle, myserial, openHandles, openLog, closeLog, hooks,
                   masters, initRet>>
    /\ UNCHANGED pinVars

\* lines 190-191: the loop ran out of candidates
ReturnNull ==
    /\ pc = "loop"
    /\ ~(i <= count)
    /\ listFrees' = listFrees + 1
    /\ cp210x_handle' = NoHandle
    /\ pc' = "sel_ret"
    /\ UNCHANGED <<refused, devs, serialno, usb_ctx, ctxInits, ctxExits, listGets, i,
                   handle, myserial, openHandles, openLog, closeLog, hooks,
                   masters, initRet>>
    /\ UNCHANGED pinVars

(***************************************************************************)
(* developerbox_spi_init and developerbox_spi_shutdown                     *)
(***************************************************************************)
\* lines 208-213: libusb_init; usb_ctx stays NULL when it fails
LibusbInit ==
    /\ pc = "init"
    /\ \E ok \in BOOLEAN :
         IF ok
         THEN /\ usb_ctx' = TRUE
              /\ UNCHANGED refused
              /\ ctxInits' = ctxInits + 1
              /\ pc' = "get_list"
              /\ UNCHANGED initRet
         ELSE /\ initRet' = 1
              /\ refused' = refused \cup {"libusb_init"}
              /\ pc' = "done"
              /\ UNCHANGED <<usb_ctx, ctxInits>>
    /\ UNCHANGED <<devs, serialno, ctxExits, listGets, listFrees, i, handle,
                   myserial, cp210x_handle, openHandles, openLog, closeLog,
                   hooks, masters>>
    /\ UNCHANGED pinVars

\* the not-found branch without its libusb_exit
CheckHandleNoExit ==
    /\ pc = "sel_ret"
    /\ IF cp210x_handle = NoHandle
       THEN /\ initRet' = 1
            /\ pc' = "done"
            /\ UNCHANGED <<usb_ctx, ctxExits>>
       ELSE /\ pc' = "reg_shutdown"
            /\ UNCHANGED <<usb_ctx, ctxExits, initRet>>
    /\ UNCHANGED <<refused, devs, serialno, ctxInits, listGets, listFrees, i, handle,
                   myserial, cp210x_handle, openHandles, openLog, closeLog,
                   hooks, masters>>
    /\ UNCHANGED pinVars

\* lines 219-223: the selector returned
CheckHandle ==
    /\ pc = "sel_ret"
    /\ IF cp210x_handle = NoHandle
       THEN /\ usb_ctx' = FALSE
            /\ ctxExits' = ctxExits + 1
            /\ initRet' = 1
            /\ pc' = "done"
       ELSE /\ pc' = "reg_shutdown"
            /\ UNCHANGED <<usb_ctx, ctxExits, initRet>>
    /\ UNCHANGED <<refused, devs, serialno, ctxInits, listGets, listFrees, i, handle,
                   myserial, cp210x_handle, openHandles, openLog, closeLog,
                   hooks, masters>>
    /\ UNCHANGED pinVars

\* register_shutdown with its result ignored
RegisterShutdownUnchecked ==
    /\ pc = "reg_shutdown"
    /\ \E ok \in BOOLEAN :
         IF ok
         THEN /\ hooks' = hooks + 1
              /\ UNCHANGED refused
         ELSE /\ refused' = refused \cup {"register_shutdown"}
              /\ UNCHANGED hooks
    /\ pc' = "reg_master"
    /\ UNCHANGED <<devs, serialno, usb_ctx, ctxInits, ctxExits, listGets,
                   listFrees, i, handle, myserial, cp210x_handle, openHandles,
                   openLog, closeLog, masters, initRet>>
    /\ UNCHANGED pinVars

\* lines 225-226: register_shutdown, which the framework may refuse
RegisterShutdown ==
    /\ pc = "reg_shutdown"
    /\ \E ok \in BOOLEAN :
         IF ok
         THEN /\ hooks' = hooks + 1
              /\ UNCHANGED refused
              /\ pc' = "reg_master"
              /\ UNCHANGED initRet
         ELSE /\ initRet' = 1
              /\ refused' = refused \cup {"register_shutdown"}
              /\ pc' = "done"
              /\ UNCHANGED hooks
    /\ UNCHANGED <<devs, serialno, usb_ctx, ctxInits, ctxExits, listGets,
                   listFrees, i, handle, myserial, cp210x_handle, openHandles,
                   openLog, closeLog, masters>>
    /\ UNCHANGED pinVars

\* the registration whose success still ends in "return 1"
RegisterMasterReturnsOne ==
    /\ pc = "reg_master"
    /\ \E ok \in BOOLEAN :
         IF ok
         THEN /\ masters' = masters + 1
              /\ initRet' = 1
              /\ UNCHANGED refused
         ELSE /\ initRet' = 1
              /\ refused' = refused \cup {"register_spi_bitbang_master"}
              /\ UNCHANGED masters
    /\ pc' = "done"
    /\ UNCHANGED <<devs, serialno, usb_ctx, ctxInits, ctxExits, listGets,
                   listFrees, i, handle, myserial, cp210x_handle, openHandles,
                   openLog, closeLog, hooks>>
    /\ UNCHANGED pinVars

\* lines 228-234: register_spi_bitbang_master, which the framework may refuse
RegisterMaster ==
    /\ pc = "reg_master"
    /\ \E ok \in BOOLEAN :
         IF ok
         THEN /\ masters' = masters + 1
              /\ UNCHANGED refused
              /\ initRet' = 0
         ELSE /\ initRet' = 1
              /\ refused' = refused \cup {"register_spi_bitbang_master"}
              /\ UNCHANGED masters
    /\ pc' = "done"
    /\ UNCHANGED <<devs, serialno, usb_ctx, ctxInits, ctxExits, listGets,
                   listFrees, i, handle, myserial, cp210x_handle, openHandles,
                   openLog, closeLog, hooks>>
    /\ UNCHANGED pinVars

\* a shutdown that tears the context down before it closes the handle
ShutdownExitFirst ==
    /\ pc = "done"
    /\ hooks > 0
    /\ usb_ctx' = FALSE
    /\ ctxExits' = ctxExits + 1
    /\ pc' = "shut_exit"
    /\ UNCHANGED <<refused, devs, serialno, ctxInits, listGets, listFrees, i,
                   handle, myserial, cp210x_handle, openHandles, openLog,
                   closeLog, hooks, masters, initRet>>
    /\ UNCHANGED pinVars

\* line 196: the framework runs the registered hook at teardown
ShutdownClose ==
    /\ pc = "done"
    /\ hooks > 0
    /\ Close(cp210x_handle)
    /\ pc' = "shut_exit"
    /\ UNCHANGED <<refused, devs, serialno, usb_ctx, ctxInits, ctxExits, listGets,
                   listFrees, i, handle, myserial, cp210x_handle, openLog,
                   hooks, masters, initRet>>
    /\ UNCHANGED pinVars

\* lines 197-199
ShutdownExit ==
    /\ pc = "shut_exit"
    /\ usb_ctx' = FALSE
    /\ ctxExits' = ctxExits + 1
    /\ pc' = "exited"
    /\ UNCHANGED <<refused, devs, serialno, ctxInits, listGets, listFrees, i, handle,
                   myserial, cp210x_handle, openHandles, openLog, closeLog,
                   hooks, masters, initRet>>
    /\ UNCHANGED pinVars

(***************************************************************************)
(* The program from its start.                                             *)
(***************************************************************************)
\* the state at the call of developerbox_spi_init, given what is attached
\* and the "serial=" parameter
Start(attached, filter) ==
    /\ pc = "init"
    /\ devs = attached
    /\ serialno = filter
    /\ usb_ctx = FALSE
    /\ ctxInits = 0
    /\ ctxExits = 0
    /\ listGets = 0
    /\ listFrees = 0
    /\ i = 0
    /\ handle = NoHandle
    /\ myserial = <<>>
    /\ cp210x_handle = NoHandle
    /\ openHandles = {}
    /\ openLog = <<>>
    /\ closeLog = <<>>
    /\ hooks = 0
    /\ masters = 0
    /\ initRet = -1
    /\ refused = {}
    /\ latch = 0
    /\ lastOp = [op |-> "none", a |-> 0, b |-> 0]
    /\ gpioArgs = <<>>
    /\ xfers = <<>>
    /\ xferRes = <<>>
    /\ lastRet = 0

Init ==
    \E attached \in ListsUpTo(Devices(SelSerials), MaxDevs), filter \in SelFilters :
        Start(attached, filter)

Next ==
    \/ LibusbInit
    \/ GetDeviceList
    \/ ReadDescriptor
    \/ OpenDevice
    \/ ReadSerial
    \/ CompareSerial
    \/ ReturnHandle
    \/ ReturnNull
    \/ CheckHandle
    \/ RegisterShutdown
    \/ RegisterMaster
    \/ ShutdownClose
    \/ ShutdownExit

Spec == Init /\ [][Next]_vars

\* one device attached, any serial string and any filter up to MaxSerialLen
InitSerial ==
    \E attached \in ListsUpTo(Devices(StringsUpTo(1..MaxChar, MaxSerialLen)), 1),
       filter \in StringsUpTo(1..MaxChar, MaxSerialLen) \cup {NULL} :
        Start(attached, filter)

SpecSerial == InitSerial /\ [][Next]_vars

(***************************************************************************)
(* C integer arithmetic.                                                   *)
(***************************************************************************)
Shl(x, k) == x * 2^k

RECURSIVE AndBits(_, _, _)
AndBits(a, b, w) ==
    IF w = 0 THEN 0
    ELSE (a % 2) * (b % 2) + 2 * AndBits(a \div 2, b \div 2, w - 1)

RECURSIVE OrBits(_, _, _)
OrBits(a, b, w) ==
    IF w = 0 THEN 0
    ELSE (IF (a % 2) + (b % 2) > 0 THEN 1 ELSE 0)
             + 2 * OrBits(a \div 2, b \div 2, w - 1)

\* & and | on ints; every operand of the driver lies in 0 .. 2^16 - 1
And(a, b) == AndBits(a, b, 16)
Or(a, b) == OrBits(a, b, 16)
\* ! on an int
Not(a) == IF a = 0 THEN 1 ELSE 0
\* conversion to uint8_t and to uint16_t
Uint8(x) == x % 256
Uint16(x) == x % 65536

(***************************************************************************)
(* Latch register I/O: cp210x_gpio_get, cp210x_gpio_set                    *)
(***************************************************************************)
\* what libusb_control_transfer returns when the transfer fails
\* (LIBUSB_ERROR_IO, LIBUSB_ERROR_NO_DEVICE)
TransferErrors == {-1, -4}

\* the CP2102N applies a latch write to the pins whose mask bit is set:
\* value in bits 8..15 of wIndex, mask in bits 0..7
LatchWrite(pins, wIndex) ==
    LET value == (wIndex \div 256) % 16
        mask == wIndex % 16
    IN  Or(And(pins, 15 - mask), And(value, mask))

RECURSIVE LatchAfter(_, _, _, _)
LatchAfter(pins, reqs, res, k) ==
    IF k > Len(reqs) THEN pins
    ELSE LatchAfter(IF res[k] < 0 THEN pins ELSE LatchWrite(pins, reqs[k].wIndex),
                    reqs, res, k + 1)

\* the host-to-device transfers reqs are issued one after the other, each
\* failing or succeeding at the transport
IssueWrites(reqs) ==
    \E res \in [1..Len(reqs) -> TransferErrors \cup {0}] :
        /\ xfers' = reqs
        /\ xferRes' = [k \in 1..Len(reqs) |-> [res |-> res[k], data |-> -1]]
        /\ latch' = LatchAfter(latch, reqs, res, 1)

\* the request without the "& 0xf" of its two operands
GpioSetRequestUnmasked(val, mask) ==
    [bmRequestType |-> REQTYPE_HOST_TO_DEVICE,
     bRequest |-> CP210X_VENDOR_SPECIFIC,
     wValue |-> CP210X_WRITE_LATCH,
     wIndex |-> Uint16(Or(Shl(val, 8), mask)),
     wLength |-> 0]

\* lines 92-97: the arguments of libusb_control_transfer in cp210x_gpio_set
\* (handle, bmRequestType, bRequest, wValue, wIndex, data, wLength, timeout)
GpioSetRequest(val, mask) ==
    [bmRequestType |-> REQTYPE_HOST_TO_DEVICE,
     bRequest |-> CP210X_VENDOR_SPECIFIC,
     wValue |-> CP210X_WRITE_LATCH,
     wIndex |-> Uint16(Or(Shl(And(val, 15), 8), And(mask, 15))),
     wLength |-> 0]

\* lines 76-78: the arguments of libusb_control_transfer in cp210x_gpio_get
GpioGetRequest ==
    [bmRequestType |-> REQTYPE_DEVICE_TO_HOST,
     bRequest |-> CP210X_VENDOR_SPECIFIC,
     wValue |-> CP210X_READ_LATCH,
     wIndex |-> 0,
     wLength |-> 1]

\* a cp210x_gpio_set that may issue its transfer a second time
GpioSetRetrying(val, mask) ==
    /\ gpioArgs' = <<val, mask>>
    /\ \/ IssueWrites(<<GpioSetRequest(val, mask)>>)
       \/ IssueWrites(<<GpioSetRequest(val, mask), GpioSetRequest(val, mask)>>)
    /\ lastRet' = 0

\* cp210x_gpio_set(uint8_t val, uint8_t mask)
cp210x_gpio_set(val, mask) ==
    /\ gpioArgs' = <<val, mask>>
    /\ IssueWrites(<<GpioSetRequest(val, mask)>>)
    /\ lastRet' = 0

\* how the read transfer can end: res is what libusb_control_transfer
\* returns, data the byte the device delivered (-1: none), gpio the content
\* of the local the transfer writes to. A failed transfer leaves gpio
\* unread (-1); a transfer that succeeds without delivering the byte leaves
\* it uninitialized, any uint8_t
ReadOutcomes(pins) ==
    [res : TransferErrors, data : {-1}, gpio : {-1}]
        \cup [res : {0}, data : {-1}, gpio : 0..255]
        \cup { [res |-> 1, data |-> pins + 16 * hi, gpio |-> pins + 16 * hi] :
                 hi \in 0..15 }

\* lines 79-84: what cp210x_gpio_get returns
cp210x_gpio_get(res, gpio) == IF res < 0 THEN 0 ELSE gpio

(***************************************************************************)
(* Bit-bang pin adapter: the callbacks of bitbang_spi_master_cp210x        *)
(***************************************************************************)
\* set_sck with a mask that covers all four pins
SetSckAllPins(val) ==
    cp210x_gpio_set(Uint8(Shl(val, DEVELOPERBOX_SPI_SCK)), 15)

\* set_sck_set_mosi as two single-pin writes
SetSckThenMosi(sck, mosi) ==
    /\ gpioArgs' = <<Uint8(Shl(mosi, DEVELOPERBOX_SPI_MOSI)),
                     Uint8(Shl(1, DEVELOPERBOX_SPI_MOSI))>>
    /\ IssueWrites(<<GpioSetRequest(Uint8(Shl(sck, DEVELOPERBOX_SPI_SCK)),
                                    Uint8(Shl(1, DEVELOPERBOX_SPI_SCK))),
                     GpioSetRequest(Uint8(Shl(mosi, DEVELOPERBOX_SPI_MOSI)),
                                    Uint8(Shl(1, DEVELOPERBOX_SPI_MOSI)))>>)
    /\ lastRet' = 0

\* get_miso testing the data-out pin
GetMisoFromMosi(res, gpio) ==
    Not(Not(And(cp210x_gpio_get(res, gpio), Shl(1, DEVELOPERBOX_SPI_MOSI))))

\* set_cs with a mask that covers all four pins
SetCsAllPins(val) ==
    cp210x_gpio_set(Uint8(Shl(val, DEVELOPERBOX_SPI_CS)), 15)

cp210x_bitbang_set_cs(val) ==
    cp210x_gpio_set(Uint8(Shl(val, DEVELOPERBOX_SPI_CS)),
                    Uint8(Shl(1, DEVELOPERBOX_SPI_CS)))

cp210x_bitbang_set_sck(val) ==
    cp210x_gpio_set(Uint8(Shl(val, DEVELOPERBOX_SPI_SCK)),
                    Uint8(Shl(1, DEVELOPERBOX_SPI_SCK)))

cp210x_bitbang_set_mosi(val) ==
    cp210x_gpio_set(Uint8(Shl(val, DEVELOPERBOX_SPI_MOSI)),
                    Uint8(Shl(1, DEVELOPERBOX_SPI_MOSI)))

cp210x_bitbang_get_miso(res, gpio) ==
    Not(Not(And(cp210x_gpio_get(res, gpio), Shl(1, DEVELOPERBOX_SPI_MISO))))

cp210x_bitbang_set_sck_set_mosi(sck, mosi) ==
    cp210x_gpio_set(
        Uint8(Or(Shl(sck, DEVELOPERBOX_SPI_SCK), Shl(mosi, DEVELOPERBOX_SPI_MOSI))),
        Uint8(Or(Shl(1, DEVELOPERBOX_SPI_SCK), Shl(1, DEVELOPERBOX_SPI_MOSI))))

\* the framework calls the callbacks once the master is registered and
\* until the shutdown hook has run
Registered == pc = "done" /\ masters > 0

SetCs ==
    /\ Registered
    /\ \E val \in 0..MaxLevel :
         /\ lastOp' = [op |-> "set_cs", a |-> val, b |-> 0]
         /\ cp210x_bitbang_set_cs(val)
    /\ UNCHANGED lifeVars

SetSck ==
    /\ Registered
    /\ \E val \in 0..MaxLevel :
         /\ lastOp' = [op |-> "set_sck", a |-> val, b |-> 0]
         /\ cp210x_bitbang_set_sck(val)
    /\ UNCHANGED lifeVars

SetMosi ==
    /\ Registered
    /\ \E val \in 0..MaxLevel :
         /\ lastOp' = [op |-> "set_mosi", a |-> val, b |-> 0]
         /\ cp210x_bitbang_set_mosi(val)
    /\ UNCHANGED lifeVars

SetSckSetMosi ==
    /\ Registered
    /\ \E sck \in 0..MaxLevel, mosi \in 0..MaxLevel :
         /\ lastOp' = [op |-> "set_sck_set_mosi", a |-> sck, b |-> mosi]
         /\ cp210x_bitbang_set_sck_set_mosi(sck, mosi)
    /\ UNCHANGED lifeVars

GetMiso ==
    /\ Registered
    /\ \E o \in ReadOutcomes(latch) :
         /\ xfers' = <<GpioGetRequest>>
         /\ xferRes' = <<[res |-> o.res, data |-> o.data]>>
         /\ lastRet' = cp210x_bitbang_get_miso(o.res, o.gpio)
    /\ lastOp' = [op |-> "get_miso", a |-> 0, b |-> 0]
    /\ gpioArgs' = <<>>
    /\ UNCHANGED latch
    /\ UNCHANGED lifeVars

\* the flash chip drives the data-in pin
FlashDrivesMiso ==
    /\ Registered
    /\ latch' = IF And(latch, Shl(1, DEVELOPERBOX_SPI_MISO)) = 0
                THEN latch + Shl(1, DEVELOPERBOX_SPI_MISO)
                ELSE latch - Shl(1, DEVELOPERBOX_SPI_MISO)
    /\ UNCHANGED <<lastOp, gpioArgs, xfers, xferRes, lastRet>>
    /\ UNCHANGED lifeVars

\* cp210x_gpio_set and cp210x_gpio_get applied once, to arbitrary arguments
NoCallYet == lastOp.op = "none"

GpioSetCall ==
    /\ Registered
    /\ NoCallYet
    /\ \E val \in 0..MaxGpioArg, mask \in 0..MaxGpioArg :
         /\ lastOp' = [op |-> "gpio_set", a |-> val, b |-> mask]
         /\ cp210x_gpio_set(val, mask)
    /\ UNCHANGED lifeVars

GpioGetCall ==
    /\ Registered
    /\ NoCallYet
    /\ \E o \in ReadOutcomes(latch) :
         /\ xfers' = <<GpioGetRequest>>
         /\ xferRes' = <<[res |-> o.res, data |-> o.data]>>
         /\ lastRet' = cp210x_gpio_get(o.res, o.gpio)
    /\ lastOp' = [op |-> "gpio_get", a |-> 0, b |-> 0]
    /\ gpioArgs' = <<>>
    /\ UNCHANGED latch
    /\ UNCHANGED lifeVars

\* the Developerbox alone on the bus, initialization returned 0
InitRegistered ==
    /\ pc = "done"
    /\ devs = <<[descOk |-> TRUE, idVendor |-> devs_developerbox.vendor_id,
                 idProduct |-> devs_developerbox.device_id, openOk |-> TRUE,
                 serialOk |-> TRUE, serial |-> <<2>>]>>
    /\ serialno = NULL
    /\ usb_ctx = TRUE
    /\ ctxInits = 1
    /\ ctxExits = 0
    /\ listGets = 1
    /\ listFrees = 1
    /\ i = 1
    /\ handle = 1
    /\ myserial = <<>>
    /\ cp210x_handle = 1
    /\ openHandles = {1}
    /\ openLog = <<1>>
    /\ closeLog = <<>>
    /\ hooks = 1
    /\ masters = 1
    /\ initRet = 0
    /\ refused = {}
    /\ latch = 0
    /\ lastOp = [op |-> "none", a |-> 0, b |-> 0]
    /\ gpioArgs = <<>>
    /\ xfers = <<>>
    /\ xferRes = <<>>
    /\ lastRet = 0

NextPins ==
    \/ SetCs
    \/ SetSck
    \/ SetMosi
    \/ GetMiso
    \/ SetSckSetMosi
    \/ FlashDrivesMiso

SpecPins == InitRegistered /\ [][NextPins]_vars

NextLatch ==
    \/ GpioSetCall
    \/ GpioGetCall
    \/ FlashDrivesMiso

SpecLatch == InitRegistered /\ [][NextLatch]_vars

(***************************************************************************)
(* The whole life of the driver: initialization, the framework driving the *)
(* pins, shutdown.                                                         *)
(***************************************************************************)
\* the Developerbox, and what is attached / asked for in SpecRun: nothing
\* attached, the Developerbox found, the Developerbox rejected by its serial
TheBox ==
    [descOk |-> TRUE, idVendor |-> devs_developerbox.vendor_id,
     idProduct |-> devs_developerbox.device_id, openOk |-> TRUE,
     serialOk |-> TRUE, serial |-> <<2>>]

RunConfigs == {<< <<>>, NULL >>, << <<TheBox>>, NULL >>, << <<TheBox>>, <<1, 2>> >>}

InitRun == \E cfg \in RunConfigs : Start(cfg[1], cfg[2])

NextRun ==
    \/ Next
    \/ NextPins

SpecRun == InitRun /\ [][NextRun]_vars

(***************************************************************************)
(* Vocabulary of the properties.                                           *)
(***************************************************************************)
\* S starts with F, byte for byte
IsPrefix(F, S) == Len(F) <= Len(S) /\ SubSeq(S, 1, Len(F)) = F

\* the candidate has the target vendor ID and the target product ID
BothIdsMatch(d) ==
    /\ d.idVendor = devs_developerbox.vendor_id
    /\ d.idProduct = devs_developerbox.device_id

\* the candidate has exactly one of the two target IDs
OneIdMatches(d) ==
    (d.idVendor = devs_developerbox.vendor_id)
        # (d.idProduct = devs_developerbox.device_id)

\* the candidate passes every check of the selector's contract
FullyMatching(d) ==
    /\ d.descOk
    /\ BothIdsMatch(d)
    /\ d.openOk
    /\ serialno # NULL =>
         /\ d.serialOk
         /\ IsPrefix(serialno, AsciiDescriptor(d.serial, SerialBufLen))

\* the selector has returned
Selected ==
    pc \in {"sel_ret", "reg_shutdown", "reg_master", "done", "shut_exit", "exited"}
        /\ ctxInits = 1

\* the selector is in its loop, the device list in hand
InLoop == pc \in {"loop", "open", "serial", "cmp", "found"}

(***************************************************************************)
(* C1: the handle device selection returns belongs to a candidate whose    *)
(* vendor ID equals the target vendor ID and whose product ID equals the   *)
(* target product ID; a device matching only one of the two is never       *)
(* returned.                                                               *)
(***************************************************************************)
C1_ReturnedDeviceMatchesBothIds ==
    (Selected /\ cp210x_handle # NoHandle) => BothIdsMatch(devs[cp210x_handle])

(***************************************************************************)
(* C2: when no enumerated device has both the target vendor ID and the     *)
(* target product ID, device selection returns NULL and libusb_open is     *)
(* never called during the enumeration.                                    *)
(***************************************************************************)
C2_NoMatchingIdsNothingOpened ==
    (\A k \in 1..Len(devs) : ~BothIdsMatch(devs[k])) =>
        /\ openLog = <<>>
        /\ Selected => cp210x_handle = NoHandle

(***************************************************************************)
(* C3: a candidate that passed the ID check and was opened, and whose      *)
(* serial string S was read, is accepted if and only if S starts with the  *)
(* filter F byte for byte (the empty filter accepts, F = S accepts, a      *)
(* longer or differing F rejects).                                         *)
(***************************************************************************)
C3_AcceptedIffSerialStartsWithFilter ==
    [][pc = "cmp" => ((pc' = "found") <=> IsPrefix(serialno, myserial))]_vars

\* a candidate whose serial equals a non-empty filter has been accepted
C3_Witness ==
    /\ pc = "found"
    /\ serialno # NULL
    /\ Len(serialno) = MaxSerialLen
    /\ myserial = serialno

(***************************************************************************)
(* C4: the handle returned belongs to the first candidate in enumeration   *)
(* order that passes all checks (both IDs match, open succeeds, the        *)
(* serial starts with the filter), and no candidate after the returned one *)
(* is ever opened.                                                         *)
(***************************************************************************)
C4_ReturnsFirstFullyMatching ==
    (Selected /\ cp210x_handle # NoHandle) =>
        /\ FullyMatching(devs[cp210x_handle])
        /\ \A k \in 1..(cp210x_handle - 1) : ~FullyMatching(devs[k])
        /\ \A n \in 1..Len(openLog) : openLog[n] <= cp210x_handle

(***************************************************************************)
(* C5: once the device list was acquired it is released exactly once       *)
(* before the selector returns, found or not: not before the loop is left, *)
(* never twice, never not at all.                                          *)
(***************************************************************************)
C5_ListReleasedExactlyOnce ==
    /\ listFrees <= listGets
    /\ InLoop => (listGets = 1 /\ listFrees = 0)
    /\ (Selected /\ listGets = 1) => listFrees = 1

\* the selector returned NULL after skipping a candidate it had opened
C5_Witness ==
    /\ pc = "sel_ret"
    /\ listGets = 1
    /\ listFrees = 1
    /\ cp210x_handle = NoHandle
    /\ Len(closeLog) > 0
    /\ Len(devs) = MaxDevs

(***************************************************************************)
(* Vocabulary of the pin properties.                                       *)
(***************************************************************************)
\* bit k of n
Bit(n, k) == (n \div 2^k) % 2

\* the call issued exactly one transfer, a latch write
OneWrite ==
    /\ Len(xfers) = 1
    /\ xfers[1].bmRequestType = 64
    /\ xfers[1].bRequest = 255
    /\ xfers[1].wValue = 14305
    /\ xfers[1].wLength = 0

\* the value byte and the mask byte of the latch write the call issued
WrittenValue == xfers[1].wIndex \div 256
WrittenMask == xfers[1].wIndex % 256

\* the call wrote exactly pin `bit`, to `level`
WroteOnePin(bit, level) ==
    /\ OneWrite
    /\ WrittenMask = 2^bit
    /\ WrittenValue = level * 2^bit

(***************************************************************************)
(* C6, as stated: every latch write is a transfer with request type 0x40,  *)
(* request 0xFF, value field (value nibble << 8) | mask nibble, index      *)
(* field 0 and no data phase.                                              *)
(***************************************************************************)
C6_WriteCarriesPinsInValueField ==
    lastOp.op = "gpio_set" =>
        /\ Len(xfers) = 1
        /\ xfers[1].bmRequestType = 64
        /\ xfers[1].bRequest = 255
        /\ xfers[1].wValue = (gpioArgs[1] % 16) * 256 + (gpioArgs[2] % 16)
        /\ xfers[1].wIndex = 0
        /\ xfers[1].wLength = 0

(***************************************************************************)
(* C6, amended: every latch write is a transfer with request type 0x40,    *)
(* request 0xFF, value field 0x37E1 (CP210X_WRITE_LATCH), index field      *)
(* (value nibble << 8) | mask nibble and no data phase, for every value    *)
(* and mask; only bits 8..11 and 0..3 of the index field can be set.       *)
(***************************************************************************)
C6_WriteCarriesPinsInIndexField ==
    lastOp.op = "gpio_set" =>
        /\ Len(xfers) = 1
        /\ xfers[1].bmRequestType = 64
        /\ xfers[1].bRequest = 255
        /\ xfers[1].wValue = 14305
        /\ xfers[1].wIndex = (gpioArgs[1] % 16) * 256 + (gpioArgs[2] % 16)
        /\ xfers[1].wIndex \in {v * 256 + m : v \in 0..15, m \in 0..15}
        /\ xfers[1].wLength = 0

\* cp210x_gpio_set(15, 15) went out as value 1111 under mask 1111
C6_Witness ==
    /\ lastOp.op = "gpio_set"
    /\ gpioArgs = <<15, 15>>
    /\ xfers[1].wIndex = 3855

(***************************************************************************)
(* C7: set chip-select, set clock and set data-out with level 0 or 1 each  *)
(* issue one write whose mask has exactly the bit of that pin (chip-select *)
(* bit 1, clock bit 0, data-out bit 3) and whose value has that bit equal  *)
(* to the level and every other bit 0.                                     *)
(***************************************************************************)
C7_SinglePinWriteEncoding ==
    lastOp.a \in {0, 1} =>
        /\ lastOp.op = "set_cs" => WroteOnePin(1, lastOp.a)
        /\ lastOp.op = "set_sck" => WroteOnePin(0, lastOp.a)
        /\ lastOp.op = "set_mosi" => WroteOnePin(3, lastOp.a)

\* set clock(1) went out as value 0001 under mask 0001
C7_Witness ==
    /\ lastOp = [op |-> "set_sck", a |-> 1, b |-> 0]
    /\ Len(xfers) = 1
    /\ xfers[1].wIndex = 257

(***************************************************************************)
(* C8: set clock and data-out together(sck, mosi) with sck, mosi in {0,1}  *)
(* issues exactly one write whose mask has exactly bits 0 and 3 and whose  *)
(* value has bit 0 = sck, bit 3 = mosi, bits 1 and 2 clear; the latch      *)
(* steps from its old state to one with both pins updated (or stays, when  *)
(* the transfer failed), never to one with only one of them updated.       *)
(***************************************************************************)
C8_CombinedIsOneWrite ==
    /\ [](( /\ lastOp.op = "set_sck_set_mosi"
            /\ lastOp.a \in {0, 1}
            /\ lastOp.b \in {0, 1} ) =>
              /\ OneWrite
              /\ WrittenMask = 9
              /\ WrittenValue = lastOp.a + 8 * lastOp.b)
    /\ [][( /\ lastOp'.op = "set_sck_set_mosi"
            /\ lastOp'.a \in {0, 1}
            /\ lastOp'.b \in {0, 1}
            /\ xfers' # <<>>
            /\ <<lastOp, xfers, xferRes, lastRet>>
                  # <<lastOp', xfers', xferRes', lastRet'>> ) =>
              \/ latch' = latch
              \/ /\ Bit(latch', 0) = lastOp'.a
                 /\ Bit(latch', 3) = lastOp'.b
                 /\ Bit(latch', 1) = Bit(latch, 1)
                 /\ Bit(latch', 2) = Bit(latch, 2)]_vars

\* clock went high and data-out low in one successful write
C8_Witness ==
    /\ lastOp = [op |-> "set_sck_set_mosi", a |-> 1, b |-> 0]
    /\ Len(xfers) = 1
    /\ xfers[1].wIndex = 265
    /\ xferRes[1].res = 0
    /\ Bit(latch, 0) = 1
    /\ Bit(latch, 3) = 0

(***************************************************************************)
(* C9: get data-in() performs one device-to-host read of the latch         *)
(* (request type 0xC0, request 0xFF, value 0x00C2, index 0, 1 byte) and    *)
(* returns true iff bit 2 of the byte read is set, whatever bits 0, 1 and  *)
(* 3 are; when the transfer fails it returns false.                        *)
(***************************************************************************)
C9_DataInIsBit2OfTheRead ==
    lastOp.op = "get_miso" =>
        /\ Len(xfers) = 1
        /\ xfers[1] = [bmRequestType |-> 192, bRequest |-> 255, wValue |-> 194,
                       wIndex |-> 0, wLength |-> 1]
        /\ lastRet \in {0, 1}
        /\ xferRes[1].res = 1 => (lastRet = 1 <=> Bit(xferRes[1].data, 2) = 1)
        /\ xferRes[1].res < 0 => lastRet = 0

\* a read that delivered bit 2 clear and bits 0, 1 and 3 set returned false
C9_Witness ==
    /\ lastOp.op = "get_miso"
    /\ xferRes[1].res = 1
    /\ xferRes[1].data % 16 = 11
    /\ lastRet = 0

(***************************************************************************)
(* C10: when device selection finds no acceptable device, initialization   *)
(* returns failure, the transport context is torn down exactly once, no    *)
(* device handle remains open, and neither a shutdown hook nor a bit-bang  *)
(* master has been registered.                                             *)
(***************************************************************************)
C10_NotFoundFailsAndTearsDown ==
    (pc = "done" /\ ctxInits = 1 /\ cp210x_handle = NoHandle) =>
        /\ initRet = 1
        /\ ctxExits = 1
        /\ ~usb_ctx
        /\ openHandles = {}
        /\ hooks = 0
        /\ masters = 0

\* initialization returned after the selector rejected a candidate it opened
C10_Witness ==
    /\ pc = "done"
    /\ ctxInits = 1
    /\ cp210x_handle = NoHandle
    /\ listGets = 1
    /\ Len(closeLog) > 0

(***************************************************************************)
(* Vocabulary of the lifecycle properties.                                 *)
(***************************************************************************)
\* exactly one attached device has the target vendor and product ID, and
\* it can be opened
OneBoxAttached ==
    \E k \in 1..Len(devs) :
        /\ BothIdsMatch(devs[k])
        /\ devs[k].descOk
        /\ devs[k].openOk
        /\ \A j \in 1..Len(devs) : BothIdsMatch(devs[j]) => j = k

\* developerbox_spi_init has returned and the shutdown hook has not run
Returned == pc = "done"

C12_HandleLifetimeWithinContext ==
    /\ [](openHandles # {} => usb_ctx)
    /\ [](pc = "shut_exit" => (usb_ctx /\ cp210x_handle \notin openHandles))
    /\ [](pc = "exited" => (~usb_ctx /\ openHandles = {}))
    /\ [][(usb_ctx /\ ~usb_ctx') => (openHandles = {} /\ openHandles' = {})]_vars

\* the driver was used and then shut down: handle closed, context gone
C12_Witness ==
    /\ pc = "exited"
    /\ lastOp.op = "get_miso"
    /\ closeLog = <<1>>
    /\ ctxInits = 1
    /\ ctxExits = 1

(***************************************************************************)
(* Vocabulary of the per-candidate failures.                               *)
(***************************************************************************)
\* the selector tries to open the candidate: the descriptor was read and
\* one of the IDs at least is the target's
OpenAttempted(d) ==
    /\ d.descOk
    /\ \/ d.idVendor = devs_developerbox.vendor_id
       \/ d.idProduct = devs_developerbox.device_id

\* the candidate fails: its descriptor cannot be read, or it cannot be
\* opened, or (a filter being set) its serial number cannot be read
CandidateFails(d) ==
    \/ ~d.descOk
    \/ OpenAttempted(d) /\ ~d.openOk
    \/ OpenAttempted(d) /\ d.openOk /\ serialno # NULL /\ ~d.serialOk

(***************************************************************************)
(* C13: a per-candidate failure (descriptor read, open or serial read      *)
(* fails) only skips that candidate: when a fully-matching candidate       *)
(* follows candidates that all failed, device selection returns the        *)
(* handle of that later candidate, however many failed before it.          *)
(***************************************************************************)
C13_FailuresOnlySkip ==
    (Selected /\ listGets = 1) =>
        \A k \in 1..Len(devs) :
            ( /\ FullyMatching(devs[k])
              /\ \A j \in 1..(k - 1) : CandidateFails(devs[j]) ) =>
                /\ cp210x_handle = k
                /\ k \in openHandles \/ pc \in {"shut_exit", "exited"}

\* the last candidate was returned after every candidate before it failed,
\* the first one at its serial read
C13_Witness ==
    /\ pc = "sel_ret"
    /\ Len(devs) = MaxDevs
    /\ cp210x_handle = MaxDevs
    /\ serialno # NULL
    /\ \A j \in 1..(MaxDevs - 1) : CandidateFails(devs[j])
    /\ Len(closeLog) > 0
    /\ closeLog[1] = 1

\* how often handle h was closed
TimesClosed(h) == Cardinality({n \in 1..Len(closeLog) : closeLog[n] = h})

(***************************************************************************)
(* C14: device selection leaks no handle: a handle it opened and rejected  *)
(* is closed exactly once before the next candidate is examined, at no     *)
(* point are two handles open, and when the selector returns the open      *)
(* handles are exactly the returned one, or none on "not found".           *)
(***************************************************************************)
C14_SelectorLeaksNoHandle ==
    /\ Cardinality(openHandles) <= 1
    /\ pc \in {"loop", "open"} => openHandles = {}
    /\ pc \in {"serial", "cmp", "found"} => openHandles = {handle}
    /\ \A n \in 1..Len(openLog) :
         LET h == openLog[n]
         IN  /\ TimesClosed(h) <= 1
             /\ (InLoop /\ devs[h].openOk /\ h \notin openHandles) =>
                   TimesClosed(h) = 1
    /\ pc \in {"sel_ret", "reg_shutdown", "reg_master", "done"} =>
         openHandles = (IF cp210x_handle = NoHandle THEN {} ELSE {cp210x_handle})

\* the second candidate was returned after the first was opened, rejected
\* and closed
C14_Witness ==
    /\ pc = "sel_ret"
    /\ openLog = <<1, 2>>
    /\ closeLog = <<1>>
    /\ cp210x_handle = 2
    /\ openHandles = {2}

(***************************************************************************)
(* Vocabulary of the frame properties.                                     *)
(***************************************************************************)
\* the pins an adapter operation names
PinsNamed(op) ==
    CASE op = "set_cs" -> {1}
      [] op = "set_sck" -> {0}
      [] op = "set_mosi" -> {3}
      [] op = "set_sck_set_mosi" -> {0, 3}
      [] OTHER -> {}

\* the step is a call of the driver (the flash driving data-in leaves the
\* record of the last call as it is)
CallStep ==
    <<lastOp, gpioArgs, xfers, xferRes, lastRet>>
        # <<lastOp', gpioArgs', xfers', xferRes', lastRet'>>

(***************************************************************************)
(* C15: with the latch applying a write only to the pins whose mask bit is *)
(* set, every adapter operation leaves the pins it does not name           *)
(* unchanged: set chip-select changes at most bit 1, set clock at most     *)
(* bit 0, set data-out at most bit 3, the combined operation at most bits  *)
(* 0 and 3, get data-in nothing; no operation writes data-in (bit 2).      *)
(***************************************************************************)
C15_OperationsTouchOnlyNamedPins ==
    /\ [][\A b \in 0..3 :
            Bit(latch', b) # Bit(latch, b) =>
                IF CallStep THEN b \in PinsNamed(lastOp'.op) ELSE b = 2]_vars
    /\ [](\A n \in 1..Len(xfers) :
            xfers[n].bmRequestType = 64 => Bit(xfers[n].wIndex, 2) = 0)

\* chip-select was raised with clock, data-in and data-out high: they stayed
C15_Witness ==
    /\ lastOp = [op |-> "set_cs", a |-> 1, b |-> 0]
    /\ xferRes[1].res = 0
    /\ latch = 15

(***************************************************************************)
(* Vocabulary of the transfer properties.                                  *)
(***************************************************************************)
\* the adapter operations
AdapterOps == {"set_cs", "set_sck", "set_mosi", "get_miso", "set_sck_set_mosi"}

\* a latch write carrying value and mask
WriteOf(value, mask) ==
    [bmRequestType |-> 64, bRequest |-> 255, wValue |-> 14305,
     wIndex |-> (value % 16) * 256 + mask, wLength |-> 0]

\* the one transfer an adapter operation asks for, from its arguments alone
RequestOf(call) ==
    CASE call.op = "set_cs" -> WriteOf(2 * call.a, 2)
      [] call.op = "set_sck" -> WriteOf(call.a, 1)
      [] call.op = "set_mosi" -> WriteOf(8 * call.a, 8)
      [] call.op = "set_sck_set_mosi" -> WriteOf(call.a + 8 * call.b, 9)
      [] call.op = "get_miso" ->
           [bmRequestType |-> 192, bRequest |-> 255, wValue |-> 194,
            wIndex |-> 0, wLength |-> 1]

(***************************************************************************)
(* C16: steady-state transfer failures are absorbed: every adapter         *)
(* operation issues exactly one control transfer (no retry) and returns    *)
(* normally whether it succeeded or failed; a failed transfer changes no   *)
(* driver state (nor the latch), so the transfer an operation issues       *)
(* depends on the operation and its arguments alone, not on which earlier  *)
(* transfers failed.                                                       *)
(***************************************************************************)
C16_TransferFailuresAbsorbed ==
    /\ [](lastOp.op \in AdapterOps =>
            /\ xfers = <<RequestOf(lastOp)>>
            /\ Len(xferRes) = 1
            /\ lastRet \in {0, 1}
            /\ lastOp.op # "get_miso" => lastRet = 0
            /\ Registered)
    /\ [][CallStep =>
            /\ lifeVars' = lifeVars
            /\ xferRes'[1].res < 0 => latch' = latch]_vars

\* set clock(1) failed at the transport after data-out had been raised: one
\* transfer, the clock as it was
C16_Witness ==
    /\ lastOp = [op |-> "set_sck", a |-> 1, b |-> 0]
    /\ Len(xfers) = 1
    /\ xferRes[1].res < 0
    /\ Bit(latch, 0) = 0
    /\ Bit(latch, 3) = 1

(***************************************************************************)
(* Vocabulary of the ordering properties.                                  *)
(***************************************************************************)
\* the steps of initialization come in order: the context exists while the
\* selector runs, the hook is registered only with a handle acquired, the
\* adapter only with the hook registered
InitStepsOrdered ==
    /\ (pc = "get_list" \/ InLoop) => (usb_ctx /\ ctxInits = 1)
    /\ pc = "reg_shutdown" => (hooks = 0 /\ cp210x_handle \in openHandles)
    /\ pc = "reg_master" => (masters = 0 /\ hooks = 1)
    /\ hooks > 0 => cp210x_handle # NoHandle
    /\ hooks <= 1
    /\ masters <= 1

\* adapter registered implies hook registered implies a handle is open
RegistrationChain ==
    /\ masters > 0 => hooks > 0
    /\ hooks > 0 => cp210x_handle \in openHandles

\* the shutdown hook has started
ShutdownRun == pc \in {"shut_exit", "exited"}

(***************************************************************************)
(* C17, as stated: initialization steps are ordered (context before        *)
(* selection, shutdown hook only after a handle was acquired, adapter only *)
(* after the hook); hence in every reachable state adapter registered      *)
(* implies shutdown hook registered implies a device handle is open.       *)
(***************************************************************************)
C17_RegisteredImpliesHandleOpen ==
    /\ InitStepsOrdered
    /\ RegistrationChain

(***************************************************************************)
(* C17, amended: initialization steps are ordered as stated; hence in      *)
(* every reachable state in which the shutdown hook has not run, adapter   *)
(* registered implies shutdown hook registered implies a device handle is  *)
(* open.                                                                   *)
(***************************************************************************)
C17_RegisteredImpliesHandleOpenUntilShutdown ==
    /\ InitStepsOrdered
    /\ ~ShutdownRun => RegistrationChain

\* initialization returned 0: adapter and hook registered, the handle open
C17_Witness ==
    /\ Returned
    /\ initRet = 0
    /\ masters = 1
    /\ hooks = 1
    /\ cp210x_handle \in openHandles

(***************************************************************************)
(* C18: on every failing return of initialization (context creation        *)
(* fails, no device found, a registration is refused), either the device   *)
(* handle is closed and the transport context torn down, or a shutdown     *)
(* hook is registered that will release them: no failing return leaves an  *)
(* open handle or a live context with no hook to release it.               *)
(***************************************************************************)
C18_FailedInitLeavesNothingUnreleased ==
    (Returned /\ initRet = 1) =>
        \/ openHandles = {} /\ ~usb_ctx
        \/ hooks > 0

(***************************************************************************)
(* C19: the latch read returns a defined value on every outcome of the     *)
(* read transfer: 0 when the transfer reports an error, otherwise exactly  *)
(* the byte the device delivered; a transfer that reports success while    *)
(* delivering no byte does not make get data-in() (or the latch read)      *)
(* return a value unrelated to the device's latch.                         *)
(***************************************************************************)
C19_ReadReturnsDefinedValue ==
    /\ lastOp.op = "get_miso" =>
         /\ xferRes[1].res < 0 => lastRet = 0
         /\ xferRes[1].res = 1 => lastRet = Bit(xferRes[1].data, 2)
         /\ lastRet = 1 => (xferRes[1].res = 1 /\ Bit(latch, 2) = 1)
    /\ lastOp.op = "gpio_get" =>
         /\ xferRes[1].res < 0 => lastRet = 0
         /\ xferRes[1].res = 1 => lastRet = xferRes[1].data
         /\ lastRet # 0 => (xferRes[1].res = 1 /\ lastRet % 16 = latch)

=============================================================================
